---- MODULE Spec2Model ----
(***************************************************************************)
(* Room registry and event router of the quiz backend (socket.io server). *)
(* One action per inbound event handler; every handler runs to completion *)
(* (single-threaded event loop), so each action is one atomic step.       *)
(* Strings that the code transforms (trim) are sequences of characters.    *)
(*                                                                         *)
(* A room object is a record with all nine fields; the three fields that   *)
(* createRoom leaves absent start as Undefined (currentCorrectAnswer),     *)
(* the empty record (currentQuestion) and FALSE (isActive, which the code  *)
(* only ever tests for truthiness and only ever sets to true).             *)
(* players is the insertion-ordered map of the room, a sequence of player  *)
(* records carrying their key in the field id.                             *)
(* Socket ids are opaque labels: after Disconnect(s) the label s stands    *)
(* for a later connection. Room ids are truthy strings.                    *)
(***************************************************************************)
EXTENDS Integers, Sequences, FiniteSets, TLC

\* ------------------------------------------------------------------ bounds
MaxQuestions == 1   \* longest pre-loaded question list explored
MaxIndex == 1       \* largest cursor value from which the cursor still advances
MaxScore == 2       \* largest score from which a submission is still explored

\* ------------------------------------------------------------ value spaces
Conns == {"c1", "c2"}
RoomIds == {"R1"}
Names == {"Alice"}

\* JavaScript undefined (an absent field or payload member) and null
Undefined == -9
Null == -8

\* selectedIndex values a client submits
SelectedInputs == {0, 1}

\* pre-loaded question records a host stages with addQuestion; stored questions
\* have correct index 0 and manual ones 1, so the two sources of the correct
\* answer are told apart, and SelectedInputs holds a right and a wrong answer
\* for each
StoredOptions == <<"a", "b", "c", "d">>
QuestionInputs ==
  { [question |-> <<"q">>, options |-> StoredOptions, correctIndex |-> 0] }

\* sendManualQuestion payloads; texts are sequences of characters, one payload
\* per way of passing or failing the shape check
GoodText == <<" ", "q", " ">>
GoodOptions == << <<"a", " ">>, <<"b">>, <<"c">>, <<"d">> >>
ManualInputs ==
  { [question |-> GoodText, options |-> GoodOptions, correctIndex |-> ci] : ci \in {1, Undefined} }
  \cup { [question |-> <<>>, options |-> GoodOptions, correctIndex |-> 0],
         [question |-> GoodText, options |-> << <<"a">>, <<"b">>, <<"c">> >>, correctIndex |-> 0],
         [question |-> GoodText, options |-> GoodOptions, correctIndex |-> -1],
         [question |-> GoodText, options |-> GoodOptions, correctIndex |-> 4] }

\* ------------------------------------------------------------------ state
VARIABLES
  rooms,      \* the registry: room id -> room object, domain = existing rooms
  event,      \* the inbound event handled by the last step
  emitted,    \* the messages that handler emitted, in order
  scoredOnOpen,        \* history: per room and socket, a submission was scored since the last newQuestion / join
  incSinceTransition,  \* history: per room and socket, the score was incremented since the last host transition / join
  lastIndex,           \* history: per room, index of the last newQuestion broadcast (Undefined if none)
  lastCorrect          \* history: per room, correct index of the question of that broadcast

vars == <<rooms, event, emitted, scoredOnOpen, incSinceTransition, lastIndex, lastCorrect>>

\* ---------------------------------------------------------------- helpers
Exists(r) == r \in DOMAIN rooms

PutRoom(r, room) == [x \in DOMAIN rooms \cup {r} |-> IF x = r THEN room ELSE rooms[x]]

PlayerIds(ps) == { ps[i].id : i \in DOMAIN ps }

IdxOf(ps, c) == CHOOSE i \in DOMAIN ps : ps[i].id = c

GetPlayer(ps, c) == ps[IdxOf(ps, c)]

\* an assignment that moves the written key to the end of the object
SetPlayerMovesLast(ps, rec) ==
  Append(SelectSeq(ps, LAMBDA q : q.id # rec.id), rec)

\* players[id] = rec : an existing key keeps its place, a new key goes last
SetPlayer(ps, rec) ==
  IF rec.id \in PlayerIds(ps) THEN [ps EXCEPT ![IdxOf(ps, rec.id)] = rec]
  ELSE Append(ps, rec)

\* a delete that leaves the entry in place
DeletePlayerKeeps(ps, c) == ps

DeletePlayer(ps, c) == SelectSeq(ps, LAMBDA p : p.id # c)

\* a reset that leaves every player's answer state as it is
ResetAnswersKeeps(ps) == ps

ResetAnswers(ps) ==
  [i \in DOMAIN ps |-> [ps[i] EXCEPT !.hasAnswered = FALSE, !.currentAnswer = Null]]

\* String.prototype.trim on a sequence of characters
RECURSIVE TrimLeft(_)
TrimLeft(s) == IF s # <<>> /\ Head(s) = " " THEN TrimLeft(Tail(s)) ELSE s

RECURSIVE TrimRight(_)
TrimRight(s) ==
  IF s # <<>> /\ s[Len(s)] = " " THEN TrimRight(SubSeq(s, 1, Len(s) - 1)) ELSE s

Trim(s) == TrimRight(TrimLeft(s))

\* Math.round(x / y * 100) for x >= 0, y > 0
RoundPercent(x, y) == (200 * x + y) \div (2 * y)

\* messages
ToSocket(s, ev, payload) == [to |-> [kind |-> "socket", id |-> s], event |-> ev, payload |-> payload]
ToRoom(r, ev, payload) == [to |-> [kind |-> "room", id |-> r], event |-> ev, payload |-> payload]
ErrorTo(s, text) == ToSocket(s, "errorMessage", [message |-> text])

Event(type, s, r) == [type |-> type, socket |-> s, roomId |-> r]

\* ------------------------------------------------------------------- Init
Init ==
  /\ rooms = [x \in {} |-> x]
  /\ event = Event("none", "none", "none")
  /\ emitted = <<>>
  /\ scoredOnOpen = [r \in RoomIds |-> [c \in Conns |-> FALSE]]
  /\ incSinceTransition = [r \in RoomIds |-> [c \in Conns |-> FALSE]]
  /\ lastIndex = [r \in RoomIds |-> Undefined]
  /\ lastCorrect = [r \in RoomIds |-> Undefined]

\* ---------------------------------------------------------------- actions
CreateRoom(s, r) ==
  /\ rooms' = PutRoom(r, [hostId |-> s,
                          currentQuestionIndex |-> 0,
                          questions |-> <<>>,
                          players |-> <<>>,
                          isQuizEnded |-> FALSE,
                          totalQuestions |-> 0,
                          currentCorrectAnswer |-> Undefined,
                          currentQuestion |-> <<>>,
                          isActive |-> FALSE])
  /\ event' = Event("createRoom", s, r)
  /\ emitted' = << ToSocket(s, "roomCreated", [roomId |-> r]) >>
  /\ scoredOnOpen' = [scoredOnOpen EXCEPT ![r] = [c \in Conns |-> FALSE]]
  /\ incSinceTransition' = [incSinceTransition EXCEPT ![r] = [c \in Conns |-> FALSE]]
  /\ lastIndex' = [lastIndex EXCEPT ![r] = Undefined]
  /\ lastCorrect' = [lastCorrect EXCEPT ![r] = Undefined]

JoinRoom(s, r, name) ==
  /\ event' = Event("joinRoom", s, r)
  /\ IF ~Exists(r)
       THEN /\ emitted' = << ErrorTo(s, "Room not found") >>
            /\ UNCHANGED <<rooms, scoredOnOpen, incSinceTransition>>
       ELSE LET players == SetPlayer(rooms[r].players,
                                     [id |-> s, name |-> name, score |-> 0,
                                      hasAnswered |-> FALSE, currentAnswer |-> Null])
            IN /\ rooms' = [rooms EXCEPT ![r].players = players]
               /\ emitted' = << ToRoom(r, "playersUpdated", [players |-> players]) >>
               /\ scoredOnOpen' = [scoredOnOpen EXCEPT ![r][s] = FALSE]
               /\ incSinceTransition' = [incSinceTransition EXCEPT ![r][s] = FALSE]
  /\ UNCHANGED <<lastIndex, lastCorrect>>

AddQuestion(s, r, question) ==
  /\ event' = Event("addQuestion", s, r)
  /\ emitted' = <<>>
  /\ IF ~Exists(r) \/ rooms[r].hostId # s
       THEN UNCHANGED rooms
       ELSE /\ Len(rooms[r].questions) < MaxQuestions
            /\ rooms' = [rooms EXCEPT ![r].questions = Append(@, question)]
  /\ UNCHANGED <<scoredOnOpen, incSinceTransition, lastIndex, lastCorrect>>

\* Array.prototype.sort with (a, b) => b.score - a.score : stable, highest first.
\* The place of entry i: after every higher score and every earlier equal score.
RankByScore(list, i) ==
  1 + Cardinality({ j \in DOMAIN list : \/ list[j].score > list[i].score
                                         \/ (list[j].score = list[i].score /\ j < i) })

SortByScore(list) ==
  [k \in DOMAIN list |-> list[CHOOSE i \in DOMAIN list : RankByScore(list, i) = k]]

\* the final results of endQuizAutomatically, before sorting
AutomaticResults(room) ==
  [i \in DOMAIN room.players |->
     [playerId |-> room.players[i].id,
      name |-> room.players[i].name,
      score |-> room.players[i].score,
      totalQuestions |-> room.currentQuestionIndex,
      percentage |-> IF room.currentQuestionIndex > 0
                       THEN RoundPercent(room.players[i].score, room.currentQuestionIndex)
                       ELSE 0]]

\* endQuizAutomatically reporting cursor + 1 questions, as the endQuiz handler does
EndQuizAutomaticallyPlusOne(r, room) ==
  IF room.isQuizEnded THEN [room |-> room, out |-> <<>>]
  ELSE [room |-> [room EXCEPT !.isQuizEnded = TRUE],
        out |-> << ToRoom(r, "quizEnded",
                          [results |-> SortByScore(AutomaticResults(room)),
                           totalQuestions |-> room.currentQuestionIndex + 1,
                           endedBy |-> "automatic"]) >>]

\* endQuizAutomatically(roomId) on an existing room: the room afterwards and the messages
EndQuizAutomatically(r, room) ==
  IF room.isQuizEnded THEN [room |-> room, out |-> <<>>]
  ELSE [room |-> [room EXCEPT !.isQuizEnded = TRUE],
        out |-> << ToRoom(r, "quizEnded",
                          [results |-> SortByScore(AutomaticResults(room)),
                           totalQuestions |-> room.currentQuestionIndex,
                           endedBy |-> "automatic"]) >>]

\* a newQuestion payload that passes the stored record's correctIndex along
StoredQuestionPayloadWithAnswer(room, question) ==
  [index |-> room.currentQuestionIndex,
   questionNumber |-> room.currentQuestionIndex + 1,
   question |-> question.question,
   options |-> question.options,
   correctIndex |-> question.correctIndex]

\* the newQuestion payload of sendQuestion
StoredQuestionPayload(room, question) ==
  [index |-> room.currentQuestionIndex,
   questionNumber |-> room.currentQuestionIndex + 1,
   question |-> question.question,
   options |-> question.options]

\* a sendQuestion that returns silently when questions[cursor] is absent
SendQuestionNeverEnds(r, room) ==
  IF room.isQuizEnded \/ room.currentQuestionIndex + 1 \notin DOMAIN room.questions
    THEN [room |-> room, out |-> <<>>]
    ELSE [room |-> [room EXCEPT !.players = ResetAnswers(@)],
          out |-> << ToRoom(r, "newQuestion",
                            StoredQuestionPayload(room, room.questions[room.currentQuestionIndex + 1])) >>]

\* sendQuestion(roomId) on an existing room: the room afterwards and the messages
SendQuestion(r, room) ==
  IF room.isQuizEnded THEN [room |-> room, out |-> <<>>]
  ELSE IF room.currentQuestionIndex + 1 \notin DOMAIN room.questions
    THEN EndQuizAutomatically(r, room)
    ELSE [room |-> [room EXCEPT !.players = ResetAnswers(@)],
          out |-> << ToRoom(r, "newQuestion",
                            StoredQuestionPayload(room, room.questions[room.currentQuestionIndex + 1])) >>]

HasEvent(out, ev) == \E i \in DOMAIN out : out[i].event = ev

MessageOf(out, ev) == out[CHOOSE i \in DOMAIN out : out[i].event = ev]

NoneYet == [c \in Conns |-> FALSE]

\* history bookkeeping after a handler that may have broadcast a newQuestion to room r
NoteDispatch(r, out) ==
  IF HasEvent(out, "newQuestion")
    THEN /\ scoredOnOpen' = [scoredOnOpen EXCEPT ![r] = NoneYet]
         /\ lastIndex' = [lastIndex EXCEPT ![r] = MessageOf(out, "newQuestion").payload.index]
    ELSE UNCHANGED <<scoredOnOpen, lastIndex>>

\* history bookkeeping: the correct index of the question a newQuestion in out carries
NoteCorrect(r, out, correctIndex) ==
  lastCorrect' = IF HasEvent(out, "newQuestion")
                   THEN [lastCorrect EXCEPT ![r] = correctIndex]
                   ELSE lastCorrect

\* correctIndex of the stored question at the cursor (Undefined when there is none)
StoredCorrect(room) ==
  IF room.currentQuestionIndex + 1 \in DOMAIN room.questions
    THEN room.questions[room.currentQuestionIndex + 1].correctIndex
    ELSE Undefined

StartQuiz(s, r) ==
  /\ event' = Event("startQuiz", s, r)
  /\ IF ~Exists(r)
       THEN /\ emitted' = <<>>
            /\ UNCHANGED <<rooms, scoredOnOpen, lastIndex, lastCorrect>>
       ELSE LET res == SendQuestion(r, rooms[r])
            IN /\ rooms' = [rooms EXCEPT ![r] = res.room]
               /\ emitted' = res.out
               /\ NoteDispatch(r, res.out)
               /\ NoteCorrect(r, res.out, StoredCorrect(res.room))
  /\ UNCHANGED incSinceTransition

\* the correct index submitAnswer judges against (-1 when there is none)
CorrectIndexOf(room) ==
  IF room.currentCorrectAnswer # Undefined THEN room.currentCorrectAnswer
  ELSE IF room.currentQuestionIndex + 1 \in DOMAIN room.questions
    THEN room.questions[room.currentQuestionIndex + 1].correctIndex
    ELSE -1

\* a judgement that only ever looks at the stored question
IsCorrectStoredOnly(room, selectedIndex) ==
  /\ room.currentQuestionIndex + 1 \in DOMAIN room.questions
  /\ room.questions[room.currentQuestionIndex + 1].correctIndex = selectedIndex

IsCorrect(room, selectedIndex) ==
  IF room.currentCorrectAnswer # Undefined THEN selectedIndex = room.currentCorrectAnswer
  ELSE /\ room.currentQuestionIndex + 1 \in DOMAIN room.questions
       /\ room.questions[room.currentQuestionIndex + 1].correctIndex = selectedIndex

\* the playersUpdated snapshot of submitAnswer
PlayersData(players) ==
  [i \in DOMAIN players |->
     [id |-> players[i].id, name |-> players[i].name,
      score |-> players[i].score, hasAnswered |-> players[i].hasAnswered]]

\* submitAnswer's guards with the ended check before the hasAnswered check
SubmitErrorEndedFirst(s, r) ==
  IF ~Exists(r) THEN "Room not found"
  ELSE IF s \notin PlayerIds(rooms[r].players) THEN "Player not found in room"
  ELSE IF rooms[r].isQuizEnded THEN "Quiz has ended"
  ELSE IF GetPlayer(rooms[r].players, s).hasAnswered THEN "You have already answered this question"
  ELSE ""

\* submitAnswer's guards without the hasAnswered check
SubmitErrorNoAnsweredCheck(s, r) ==
  IF ~Exists(r) THEN "Room not found"
  ELSE IF s \notin PlayerIds(rooms[r].players) THEN "Player not found in room"
  ELSE IF rooms[r].isQuizEnded THEN "Quiz has ended"
  ELSE ""

\* the guard of submitAnswer that fails first, "" when all pass
SubmitError(s, r) ==
  IF ~Exists(r) THEN "Room not found"
  ELSE IF s \notin PlayerIds(rooms[r].players) THEN "Player not found in room"
  ELSE IF GetPlayer(rooms[r].players, s).hasAnswered THEN "You have already answered this question"
  ELSE IF rooms[r].isQuizEnded THEN "Quiz has ended"
  ELSE ""

\* the player entry after an accepted submission (lines 130-153)
AnsweredPlayer(room, s, selectedIndex) ==
  [GetPlayer(room.players, s) EXCEPT !.hasAnswered = TRUE,
                                     !.currentAnswer = selectedIndex,
                                     !.score = IF IsCorrect(room, selectedIndex)
                                                 THEN @ + 1 ELSE @]

\* the room after an accepted submission of player s
Answered(room, s, selectedIndex) ==
  [room EXCEPT !.players = SetPlayer(@, AnsweredPlayer(room, s, selectedIndex))]

\* the answerResult payload sent back to the submitting socket (lines 156-161)
AnswerResult(room, s, selectedIndex) ==
  [correct |-> IsCorrect(room, selectedIndex),
   correctIndex |-> CorrectIndexOf(room),
   currentScore |-> AnsweredPlayer(room, s, selectedIndex).score,
   questionNumber |-> room.currentQuestionIndex + 1]

SubmitAnswer(s, r, selectedIndex) ==
  /\ event' = Event("submitAnswer", s, r)
  /\ IF SubmitError(s, r) # ""
       THEN /\ emitted' = << ErrorTo(s, SubmitError(s, r)) >>
            /\ UNCHANGED <<rooms, scoredOnOpen, incSinceTransition>>
       ELSE LET room == rooms[r]
                player == GetPlayer(room.players, s)
                isCorrect == IsCorrect(room, selectedIndex)
                after == Answered(room, s, selectedIndex)
            IN /\ isCorrect => player.score < MaxScore
               /\ rooms' = [rooms EXCEPT ![r] = after]
               /\ emitted' = << ToSocket(s, "answerResult",
                                         AnswerResult(room, s, selectedIndex)),
                                ToRoom(r, "playersUpdated",
                                       [players |-> PlayersData(after.players)]) >>
               /\ scoredOnOpen' = [scoredOnOpen EXCEPT ![r][s] = TRUE]
               /\ incSinceTransition' =
                    [incSinceTransition EXCEPT ![r][s] = isCorrect \/ @]
  /\ UNCHANGED <<lastIndex, lastCorrect>>

NextQuestion(s, r) ==
  /\ event' = Event("nextQuestion", s, r)
  /\ IF ~Exists(r) \/ rooms[r].hostId # s
       THEN /\ emitted' = <<>>
            /\ UNCHANGED <<rooms, scoredOnOpen, incSinceTransition, lastIndex, lastCorrect>>
       ELSE IF rooms[r].isQuizEnded
         THEN /\ emitted' = << ErrorTo(s, "Quiz has already ended") >>
              /\ UNCHANGED <<rooms, scoredOnOpen, incSinceTransition, lastIndex, lastCorrect>>
         \* the advanced room and the outcome of sendQuestion, each computed once
         ELSE \E advanced \in { [rooms[r] EXCEPT !.currentQuestionIndex = @ + 1,
                                                   !.players = ResetAnswers(@)] } :
              \E res \in { SendQuestion(r, advanced) } :
                 /\ rooms[r].currentQuestionIndex < MaxIndex \/ res.room.isQuizEnded
                 /\ rooms' = [rooms EXCEPT ![r] = res.room]
                 /\ emitted' = res.out
                 /\ incSinceTransition' = [incSinceTransition EXCEPT ![r] = NoneYet]
                 /\ NoteDispatch(r, res.out)
                 /\ NoteCorrect(r, res.out, StoredCorrect(res.room))

\* the final results of the endQuiz handler, before sorting
HostResults(room) ==
  [i \in DOMAIN room.players |->
     [playerId |-> room.players[i].id,
      name |-> room.players[i].name,
      score |-> room.players[i].score,
      totalQuestions |-> room.currentQuestionIndex + 1,
      percentage |-> IF room.currentQuestionIndex >= 0
                       THEN RoundPercent(room.players[i].score, room.currentQuestionIndex + 1)
                       ELSE 0]]

\* endQuiz's guards without the host check
EndQuizErrorNoHostCheck(s, r) ==
  IF ~Exists(r) THEN "Only the host can end the quiz"
  ELSE IF rooms[r].isQuizEnded THEN "Quiz has already ended"
  ELSE ""

\* endQuiz's guards without the already-ended check
EndQuizErrorNoEndedCheck(s, r) ==
  IF ~Exists(r) \/ rooms[r].hostId # s THEN "Only the host can end the quiz"
  ELSE ""

\* the guard of endQuiz that fails first, "" when all pass
EndQuizError(s, r) ==
  IF ~Exists(r) \/ rooms[r].hostId # s THEN "Only the host can end the quiz"
  ELSE IF rooms[r].isQuizEnded THEN "Quiz has already ended"
  ELSE ""

EndQuiz(s, r) ==
  /\ event' = Event("endQuiz", s, r)
  /\ IF EndQuizError(s, r) # ""
       THEN /\ emitted' = << ErrorTo(s, EndQuizError(s, r)) >>
            /\ UNCHANGED rooms
       ELSE /\ rooms' = [rooms EXCEPT ![r].isQuizEnded = TRUE]
            /\ emitted' = << ToRoom(r, "quizEnded",
                                    [results |-> SortByScore(HostResults(rooms[r])),
                                     totalQuestions |-> rooms[r].currentQuestionIndex + 1,
                                     endedBy |-> "host"]) >>
  /\ UNCHANGED <<scoredOnOpen, incSinceTransition, lastIndex, lastCorrect>>

\* the shape check of sendManualQuestion: TRUE when the payload is rejected
InvalidFormat(question, options, correctIndex) ==
  \/ question = <<>>
  \/ Len(options) # 4
  \/ (correctIndex # Undefined /\ correctIndex < 0)
  \/ (correctIndex # Undefined /\ correctIndex > 3)

\* the public view sendManualQuestion builds (index is the cursor after the advance)
QuestionData(question, options, index) ==
  [question |-> Trim(question),
   options |-> [i \in DOMAIN options |-> Trim(options[i])],
   index |-> index,
   questionNumber |-> index + 1]

SendManualQuestion(s, r, question, options, correctIndex) ==
  /\ event' = Event("sendManualQuestion", s, r)
  /\ IF ~Exists(r)
       THEN /\ emitted' = << ErrorTo(s, "Room not found") >>
            /\ UNCHANGED <<rooms, scoredOnOpen, incSinceTransition, lastIndex, lastCorrect>>
       ELSE IF rooms[r].hostId # s
         THEN /\ emitted' = << ErrorTo(s, "Only the host can send questions") >>
              /\ UNCHANGED <<rooms, scoredOnOpen, incSinceTransition, lastIndex, lastCorrect>>
       ELSE IF rooms[r].isQuizEnded
         THEN /\ emitted' = << ErrorTo(s, "Quiz has already ended") >>
              /\ UNCHANGED <<rooms, scoredOnOpen, incSinceTransition, lastIndex, lastCorrect>>
       ELSE IF InvalidFormat(question, options, correctIndex)
         THEN /\ emitted' = << ErrorTo(s, "Invalid question format") >>
              /\ UNCHANGED <<rooms, scoredOnOpen, incSinceTransition, lastIndex, lastCorrect>>
       ELSE LET room == rooms[r]
                index == IF room.isActive THEN room.currentQuestionIndex + 1
                         ELSE room.currentQuestionIndex
                questionData == QuestionData(question, options, index)
            IN /\ room.isActive => room.currentQuestionIndex < MaxIndex
               /\ rooms' = [rooms EXCEPT ![r] =
                              [room EXCEPT !.currentQuestionIndex = index,
                                           !.currentCorrectAnswer = correctIndex,
                                           !.currentQuestion = questionData,
                                           !.isActive = TRUE,
                                           !.players = ResetAnswers(@)]]
               /\ emitted' = << ToRoom(r, "newQuestion", questionData) >>
               /\ incSinceTransition' = [incSinceTransition EXCEPT ![r] = NoneYet]
               /\ NoteDispatch(r, emitted')
               /\ NoteCorrect(r, emitted', correctIndex)

GetQuizStatus(s, r) ==
  /\ event' = Event("getQuizStatus", s, r)
  /\ emitted' = IF ~Exists(r) THEN << ErrorTo(s, "Room not found") >>
                ELSE << ToSocket(s, "quizStatus",
                                 [isQuizEnded |-> rooms[r].isQuizEnded,
                                  currentQuestionIndex |-> rooms[r].currentQuestionIndex,
                                  isActive |-> rooms[r].isActive,
                                  currentQuestion |-> rooms[r].currentQuestion,
                                  players |-> rooms[r].players]) >>
  /\ UNCHANGED <<rooms, scoredOnOpen, incSinceTransition, lastIndex, lastCorrect>>

\* the rooms of the registry, in the order the disconnect loop visits them
RoomOrder == <<"R1">>

RECURSIVE DisconnectOut(_, _)
DisconnectOut(s, i) ==
  IF i > Len(RoomOrder) THEN <<>>
  ELSE LET r == RoomOrder[i]
       IN (IF Exists(r) /\ s \in PlayerIds(rooms[r].players)
             THEN << ToRoom(r, "playersUpdated",
                            [players |-> DeletePlayer(rooms[r].players, s)]) >>
             ELSE <<>>) \o DisconnectOut(s, i + 1)

Disconnect(s) ==
  /\ event' = Event("disconnect", s, "none")
  /\ rooms' = [r \in DOMAIN rooms |-> [rooms[r] EXCEPT !.players = DeletePlayer(@, s)]]
  /\ emitted' = DisconnectOut(s, 1)
  /\ scoredOnOpen' = [r \in RoomIds |-> [scoredOnOpen[r] EXCEPT ![s] = FALSE]]
  /\ incSinceTransition' = [r \in RoomIds |-> [incSinceTransition[r] EXCEPT ![s] = FALSE]]
  /\ UNCHANGED <<lastIndex, lastCorrect>>

Next ==
  \/ \E s \in Conns, r \in RoomIds : CreateRoom(s, r)
  \/ \E s \in Conns, r \in RoomIds, name \in Names : JoinRoom(s, r, name)
  \/ \E s \in Conns, r \in RoomIds, q \in QuestionInputs : AddQuestion(s, r, q)
  \/ \E s \in Conns, r \in RoomIds : StartQuiz(s, r)
  \/ \E s \in Conns, r \in RoomIds, sel \in SelectedInputs : SubmitAnswer(s, r, sel)
  \/ \E s \in Conns, r \in RoomIds : NextQuestion(s, r)
  \/ \E s \in Conns, r \in RoomIds : EndQuiz(s, r)
  \/ \E s \in Conns, r \in RoomIds, m \in ManualInputs :
       SendManualQuestion(s, r, m.question, m.options, m.correctIndex)
  \/ \E s \in Conns, r \in RoomIds : GetQuizStatus(s, r)
  \/ \E s \in Conns : Disconnect(s)

Spec == Init /\ [][Next]_vars

\* the host of an existing room sends nextQuestion
HostNextQuestion == \E r \in RoomIds : Exists(r) /\ NextQuestion(rooms[r].hostId, r)

\* The program run on rooms whose questions are pre-loaded at cursor 0 and that
\* are never created twice.
ExhaustNext ==
  \/ \E s \in Conns, r \in RoomIds : ~Exists(r) /\ CreateRoom(s, r)
  \/ \E s \in Conns, r \in RoomIds, name \in Names : JoinRoom(s, r, name)
  \/ \E s \in Conns, r \in RoomIds, q \in QuestionInputs :
       (Exists(r) => rooms[r].currentQuestionIndex = 0) /\ AddQuestion(s, r, q)
  \/ \E s \in Conns, r \in RoomIds : StartQuiz(s, r)
  \/ \E s \in Conns, r \in RoomIds, sel \in SelectedInputs : SubmitAnswer(s, r, sel)
  \/ \E s \in Conns, r \in RoomIds : NextQuestion(s, r)
  \/ \E s \in Conns, r \in RoomIds : EndQuiz(s, r)
  \/ \E s \in Conns, r \in RoomIds, m \in ManualInputs :
       SendManualQuestion(s, r, m.question, m.options, m.correctIndex)
  \/ \E s \in Conns, r \in RoomIds : GetQuizStatus(s, r)
  \/ \E s \in Conns : Disconnect(s)

\* socket.io hands every event the host sends to its handler, and each handler
\* runs to completion: a host that keeps sending nextQuestion gets one processed.
ExhaustSpec == Init /\ [][ExhaustNext]_vars /\ WF_vars(HostNextQuestion)

\* ================================================================= claims
IsPlayer(r, c) == Exists(r) /\ c \in PlayerIds(rooms[r].players)

ScoreOf(r, c) == GetPlayer(rooms[r].players, c).score

\* id and score of every player of a room, in map order
Scores(room) == [i \in DOMAIN room.players |-> <<room.players[i].id, room.players[i].score>>]

AlreadyAnswered(p) == << ErrorTo(p, "You have already answered this question") >>

\* C1: once a submission of player p was scored on the open question of a room
\* (no newQuestion and no join of p since, quiz not ended), no further
\* submission of p is scored: it emits 'You have already answered this
\* question' to p only and leaves the whole room unchanged.
C1_SecondSubmissionRejected ==
  [][ \A r \in RoomIds, p \in Conns :
        (event'.type = "submitAnswer" /\ event'.socket = p /\ event'.roomId = r)
        => /\ (Exists(r) /\ ~rooms[r].isQuizEnded /\ scoredOnOpen[r][p])
                => (emitted' = AlreadyAnswered(p) /\ rooms' = rooms)
           /\ HasEvent(emitted', "answerResult") => ~scoredOnOpen[r][p] ]_vars

C1_Witness ==
  \E r \in RoomIds, p \in Conns :
    /\ IsPlayer(r, p) /\ ~rooms[r].isQuizEnded /\ scoredOnOpen[r][p]
    /\ ScoreOf(r, p) = 1
    /\ event = Event("submitAnswer", p, r)
    /\ emitted = AlreadyAnswered(p)

HostEndedEvents == {"nextQuestion", "submitAnswer", "endQuiz", "sendManualQuestion"}

\* C2: in a room whose isQuizEnded is true, a nextQuestion, submitAnswer,
\* endQuiz or sendManualQuestion from any connection changes no score and
\* not the cursor, and broadcasts neither newQuestion nor quizEnded.
C2_EndedRoomIsFrozen ==
  [][ \A r \in RoomIds :
        (Exists(r) /\ rooms[r].isQuizEnded /\ event'.roomId = r /\ event'.type \in HostEndedEvents)
        => /\ r \in DOMAIN rooms'
           /\ Scores(rooms'[r]) = Scores(rooms[r])
           /\ rooms'[r].currentQuestionIndex = rooms[r].currentQuestionIndex
           /\ ~HasEvent(emitted', "newQuestion")
           /\ ~HasEvent(emitted', "quizEnded") ]_vars

C2_Witness ==
  \E r \in RoomIds :
    /\ Exists(r) /\ rooms[r].isQuizEnded
    /\ rooms[r].players # <<>>
    /\ event = Event("endQuiz", rooms[r].hostId, r)
    /\ emitted = << ErrorTo(rooms[r].hostId, "Quiz has already ended") >>

\* some player of room r that stays in the room has hasAnswered reset in this step
AnswersReset(r) ==
  \E c \in Conns :
    /\ IsPlayer(r, c) /\ GetPlayer(rooms[r].players, c).hasAnswered
    /\ r \in DOMAIN rooms' /\ c \in PlayerIds(rooms'[r].players)
    /\ ~GetPlayer(rooms'[r].players, c).hasAnswered

\* the room ends, or a question / the final results are broadcast, or answers are reset
ProgressionEffect(r) ==
  \/ ~rooms[r].isQuizEnded /\ r \in DOMAIN rooms' /\ rooms'[r].isQuizEnded
  \/ HasEvent(emitted', "newQuestion")
  \/ HasEvent(emitted', "quizEnded")
  \/ AnswersReset(r)

HostOnlyEvents == {"startQuiz", "nextQuestion", "endQuiz", "sendManualQuestion", "addQuestion"}

\* C3: no startQuiz, nextQuestion, endQuiz, sendManualQuestion or addQuestion
\* sent by a connection other than the room's host ends the room, broadcasts
\* newQuestion or quizEnded, or resets players' hasAnswered.
C3_HostSoleAuthority ==
  [][ \A r \in RoomIds :
        (Exists(r) /\ event'.roomId = r /\ event'.type \in HostOnlyEvents
           /\ event'.socket # rooms[r].hostId)
        => ~ProgressionEffect(r) ]_vars

\* C4: a player's score is incremented at most once between two question
\* transitions made by the host (nextQuestion, successful sendManualQuestion).
C4_OneIncrementPerQuestion ==
  [][ \A r \in RoomIds, p \in Conns :
        (IsPlayer(r, p) /\ r \in DOMAIN rooms' /\ p \in PlayerIds(rooms'[r].players)
           /\ GetPlayer(rooms'[r].players, p).score > ScoreOf(r, p))
        => ~incSinceTransition[r][p] ]_vars

\* C5: while a connection is a player of a room its score never decreases,
\* whatever the event (a repeated joinRoom included).
C5_ScoreNeverDecreases ==
  [][ \A r \in RoomIds, p \in Conns :
        (IsPlayer(r, p) /\ r \in DOMAIN rooms' /\ p \in PlayerIds(rooms'[r].players))
        => GetPlayer(rooms'[r].players, p).score >= ScoreOf(r, p) ]_vars

RECURSIVE SumScores(_)
SumScores(results) ==
  IF results = <<>> THEN 0 ELSE Head(results).score + SumScores(Tail(results))

NonIncreasing(results) ==
  \A i, j \in DOMAIN results : i < j => results[i].score >= results[j].score

\* C6: every quizEnded broadcast has its results ordered by non-increasing
\* score, and the scores sum to at most totalQuestions * number of results.
C6_ResultsSortedAndBounded ==
  \A i \in DOMAIN emitted :
    emitted[i].event = "quizEnded"
    => /\ NonIncreasing(emitted[i].payload.results)
       /\ SumScores(emitted[i].payload.results)
            <= emitted[i].payload.totalQuestions * Len(emitted[i].payload.results)

\* C7: for every room identifier, once isQuizEnded is true it stays true.
C7_EndedIsOneWay ==
  [][ \A r \in RoomIds :
        (Exists(r) /\ rooms[r].isQuizEnded)
        => (r \in DOMAIN rooms' /\ rooms'[r].isQuizEnded) ]_vars

\* C8: for every room identifier, hostId never changes after the first createRoom.
C8_HostNeverChanges ==
  [][ \A r \in RoomIds :
        Exists(r) => (r \in DOMAIN rooms' /\ rooms'[r].hostId = rooms[r].hostId) ]_vars

TransitionEvents == {"nextQuestion", "sendManualQuestion"}

\* C9: within one room object the cursor never decreases and moves by at most
\* 1 per event, and a newQuestion broadcast by nextQuestion or sendManualQuestion
\* that replaces an earlier broadcast question carries that question's index + 1.
C9_IndexAdvancesByOne ==
  [][ \A r \in RoomIds :
        (Exists(r) /\ event'.roomId = r /\ event'.type # "createRoom")
        => /\ rooms'[r].currentQuestionIndex >= rooms[r].currentQuestionIndex
           /\ rooms'[r].currentQuestionIndex <= rooms[r].currentQuestionIndex + 1
           /\ (event'.type \in TransitionEvents /\ HasEvent(emitted', "newQuestion")
                 /\ lastIndex[r] # Undefined)
                => MessageOf(emitted', "newQuestion").payload.index = lastIndex[r] + 1 ]_vars

PublicFields == {"index", "questionNumber", "question", "options"}

\* C10: every newQuestion payload has exactly the fields index, questionNumber,
\* question and options, and neither room.currentQuestion nor the currentQuestion
\* returned by getQuizStatus has a correctIndex field.
C10_NoCorrectIndexBroadcast ==
  /\ \A i \in DOMAIN emitted :
       /\ emitted[i].event = "newQuestion" => DOMAIN emitted[i].payload = PublicFields
       /\ emitted[i].event = "quizStatus"
            => "correctIndex" \notin DOMAIN emitted[i].payload.currentQuestion
  /\ \A r \in DOMAIN rooms : "correctIndex" \notin DOMAIN rooms[r].currentQuestion

C10_Witness ==
  \E r \in RoomIds :
    /\ Exists(r) /\ rooms[r].currentQuestion # <<>>
    /\ rooms[r].currentCorrectAnswer = 1
    /\ event.type = "startQuiz"
    /\ HasEvent(emitted, "newQuestion")

\* the shape the interface gives a manual question: text present, exactly
\* four options, 0 <= correctIndex <= 3
WellFormed(m) ==
  /\ m.question # <<>>
  /\ Len(m.options) = 4
  /\ m.correctIndex \in 0..3

\* C11: a sendManualQuestion of the host on a non-ended room whose payload is
\* not well-formed emits 'Invalid question format' to the host only, broadcasts
\* no newQuestion and leaves the whole room unchanged.
C11_InvalidManualRejected ==
  [][ \A s \in Conns, r \in RoomIds, m \in ManualInputs :
        (/\ Exists(r) /\ rooms[r].hostId = s /\ ~rooms[r].isQuizEnded
         /\ ~WellFormed(m)
         /\ SendManualQuestion(s, r, m.question, m.options, m.correctIndex))
        => (emitted' = << ErrorTo(s, "Invalid question format") >> /\ rooms' = rooms) ]_vars

ResultIds(results) == { results[i].playerId : i \in DOMAIN results }

\* C12: a nextQuestion of the host on a non-ended room that moves the cursor
\* to a position k with questions[k] absent ends the room in that step and
\* emits exactly one message: quizEnded to the room, endedBy 'automatic',
\* totalQuestions = k, results holding exactly the players present.
C12_ExhaustionEndsQuiz ==
  [][ \A r \in RoomIds :
        (/\ Exists(r) /\ ~rooms[r].isQuizEnded
         /\ event' = Event("nextQuestion", rooms[r].hostId, r)
         /\ rooms[r].currentQuestionIndex + 2 \notin DOMAIN rooms[r].questions)
        => LET k == rooms[r].currentQuestionIndex + 1
           IN /\ rooms'[r].isQuizEnded
              /\ rooms'[r].currentQuestionIndex = k
              /\ Len(emitted') = 1
              /\ emitted'[1].event = "quizEnded"
              /\ emitted'[1].to = [kind |-> "room", id |-> r]
              /\ emitted'[1].payload.endedBy = "automatic"
              /\ emitted'[1].payload.totalQuestions = k
              /\ Len(emitted'[1].payload.results) = Len(rooms[r].players)
              /\ ResultIds(emitted'[1].payload.results) = PlayerIds(rooms[r].players) ]_vars

C12_Witness ==
  \E r \in RoomIds :
    /\ Exists(r) /\ rooms[r].isQuizEnded
    /\ Len(rooms[r].questions) = 1
    /\ Len(rooms[r].players) = 2
    /\ event = Event("nextQuestion", rooms[r].hostId, r)
    /\ HasEvent(emitted, "quizEnded")
    /\ MessageOf(emitted, "quizEnded").payload.totalQuestions = 1

\* the player ids a playersUpdated or quizEnded message shows
ShownIds(msg) ==
  IF msg.event = "playersUpdated" THEN PlayerIds(msg.payload.players)
  ELSE IF msg.event = "quizEnded" THEN ResultIds(msg.payload.results)
  ELSE {}

MessagesTo(out, r) == { i \in DOMAIN out : out[i].to = [kind |-> "room", id |-> r] }

C14_NonHostRejected ==
  [][ \A r \in RoomIds, s \in Conns :
        (Exists(r) /\ rooms[r].hostId # s /\ event'.socket = s /\ event'.roomId = r)
        => /\ event'.type = "endQuiz"
                => /\ rooms' = rooms
                   /\ emitted' = << ErrorTo(s, "Only the host can end the quiz") >>
           /\ event'.type = "sendManualQuestion"
                => /\ rooms' = rooms
                   /\ emitted' = << ErrorTo(s, "Only the host can send questions") >>
           /\ event'.type \in {"addQuestion", "nextQuestion"}
                => /\ rooms' = rooms
                   /\ emitted' = <<>> ]_vars

C14_Witness ==
  \E r \in RoomIds, s \in Conns :
    /\ Exists(r) /\ rooms[r].hostId # s /\ ~rooms[r].isQuizEnded
    /\ rooms[r].players # <<>>
    /\ event = Event("endQuiz", s, r)
    /\ emitted = << ErrorTo(s, "Only the host can end the quiz") >>

SnapshotFields == {"id", "name", "score", "hasAnswered"}

\* C15: a submitAnswer that passes all guards judges selectedIndex against
\* currentCorrectAnswer when set and otherwise against the stored question at
\* the cursor, adds exactly 1 to the caller's score iff they are equal, sends
\* answerResult{correct, correctIndex, currentScore, questionNumber} to the
\* caller only and then broadcasts a playersUpdated of name, score and
\* hasAnswered of every player, without any currentAnswer.
C15_SubmitScoresAndReports ==
  [][ \A s \in Conns, r \in RoomIds, sel \in SelectedInputs :
        (/\ event' = Event("submitAnswer", s, r)
         /\ IsPlayer(r, s) /\ ~rooms[r].isQuizEnded
         /\ ~GetPlayer(rooms[r].players, s).hasAnswered
         /\ SubmitAnswer(s, r, sel))
        => LET room == rooms[r]
               stored == room.currentQuestionIndex + 1 \in DOMAIN room.questions
               correct == IF room.currentCorrectAnswer # Undefined
                            THEN sel = room.currentCorrectAnswer
                            ELSE stored /\ sel = room.questions[room.currentQuestionIndex + 1].correctIndex
               after == rooms'[r].players
           IN /\ GetPlayer(after, s).score = ScoreOf(r, s) + (IF correct THEN 1 ELSE 0)
              /\ \A c \in PlayerIds(room.players) \ {s} :
                   GetPlayer(after, c) = GetPlayer(room.players, c)
              /\ Len(emitted') = 2
              /\ emitted'[1].to = [kind |-> "socket", id |-> s]
              /\ emitted'[1].event = "answerResult"
              /\ emitted'[1].payload.correct = correct
              /\ (room.currentCorrectAnswer # Undefined)
                   => emitted'[1].payload.correctIndex = room.currentCorrectAnswer
              /\ (room.currentCorrectAnswer = Undefined /\ stored)
                   => emitted'[1].payload.correctIndex
                        = room.questions[room.currentQuestionIndex + 1].correctIndex
              /\ emitted'[1].payload.currentScore = GetPlayer(after, s).score
              /\ emitted'[1].payload.questionNumber = room.currentQuestionIndex + 1
              /\ emitted'[2].to = [kind |-> "room", id |-> r]
              /\ emitted'[2].event = "playersUpdated"
              /\ Len(emitted'[2].payload.players) = Len(after)
              /\ \A i \in DOMAIN after :
                   LET shown == emitted'[2].payload.players[i]
                   IN /\ DOMAIN shown = SnapshotFields
                      /\ shown.id = after[i].id /\ shown.name = after[i].name
                      /\ shown.score = after[i].score
                      /\ shown.hasAnswered = after[i].hasAnswered ]_vars

C15_Witness ==
  \E r \in RoomIds, s \in Conns :
    /\ IsPlayer(r, s)
    /\ rooms[r].currentCorrectAnswer = 1
    /\ rooms[r].questions # <<>>
    /\ GetPlayer(rooms[r].players, s).currentAnswer = 1
    /\ event = Event("submitAnswer", s, r)
    /\ HasEvent(emitted, "answerResult")
    /\ MessageOf(emitted, "answerResult").payload.correct
    /\ MessageOf(emitted, "answerResult").payload.currentScore = 1

\* the submitAnswer of s on r is refused with this text and nothing else happens
RefusedWith(s, text) ==
  /\ emitted' = << ErrorTo(s, text) >>
  /\ rooms' = rooms

\* C16: submitAnswer checks, in this order, that the room exists, that the
\* caller is a player of it, that the player has not answered and that the
\* quiz has not ended; the first failing check alone decides the errorMessage
\* and nothing else is emitted or changed. In an ended room a player who had
\* answered gets the already-answered error, one who had not the ended error.
C16_SubmitGuardOrder ==
  [][ \A s \in Conns, r \in RoomIds :
        (event' = Event("submitAnswer", s, r))
        => /\ ~Exists(r) => RefusedWith(s, "Room not found")
           /\ (Exists(r) /\ ~IsPlayer(r, s)) => RefusedWith(s, "Player not found in room")
           /\ (IsPlayer(r, s) /\ GetPlayer(rooms[r].players, s).hasAnswered)
                => RefusedWith(s, "You have already answered this question")
           /\ (IsPlayer(r, s) /\ ~GetPlayer(rooms[r].players, s).hasAnswered
                 /\ rooms[r].isQuizEnded)
                => RefusedWith(s, "Quiz has ended")
           /\ (IsPlayer(r, s) /\ ~GetPlayer(rooms[r].players, s).hasAnswered
                 /\ ~rooms[r].isQuizEnded)
                => HasEvent(emitted', "answerResult") ]_vars

C16_Witness ==
  \E r \in RoomIds, s \in Conns :
    /\ IsPlayer(r, s) /\ rooms[r].isQuizEnded
    /\ GetPlayer(rooms[r].players, s).hasAnswered
    /\ event = Event("submitAnswer", s, r)
    /\ emitted = AlreadyAnswered(s)

\* C17: in the state a newQuestion broadcast leaves behind, every player of
\* the room has hasAnswered = false and currentAnswer = null; and in every
\* state a player with hasAnswered = true has had a submission scored since
\* the room's most recent newQuestion broadcast.
C17_AnswersResetOnNewQuestion ==
  \A r \in DOMAIN rooms :
    /\ (\E i \in MessagesTo(emitted, r) : emitted[i].event = "newQuestion")
         => \A i \in DOMAIN rooms[r].players :
              /\ ~rooms[r].players[i].hasAnswered
              /\ rooms[r].players[i].currentAnswer = Null
    /\ \A i \in DOMAIN rooms[r].players :
         rooms[r].players[i].hasAnswered
           => scoredOnOpen[r][rooms[r].players[i].id]

C17_Witness ==
  \E r \in RoomIds :
    /\ Exists(r) /\ Len(rooms[r].players) = 2
    /\ rooms[r].players[1].score = 1
    /\ event.type = "sendManualQuestion"
    /\ HasEvent(emitted, "newQuestion")

\* C18: every scoring decision and every answerResult.correctIndex uses the
\* correct index of the question most recently broadcast to the room (the
\* supplied one for a manual question, the stored one for a pre-loaded
\* question, also when the two paths are mixed), and no submitAnswer raises
\* a score before the room's first newQuestion broadcast.
C18_ScoredAgainstLastBroadcast ==
  [][ \A s \in Conns, r \in RoomIds, sel \in SelectedInputs :
        (IsPlayer(r, s) /\ SubmitAnswer(s, r, sel) /\ HasEvent(emitted', "answerResult"))
        => LET result == MessageOf(emitted', "answerResult").payload
               gained == GetPlayer(rooms'[r].players, s).score - ScoreOf(r, s)
           IN /\ lastIndex[r] = Undefined => gained = 0
              /\ (lastIndex[r] # Undefined /\ lastCorrect[r] # Undefined)
                   => /\ result.correctIndex = lastCorrect[r]
                      /\ result.correct = (sel = lastCorrect[r])
                      /\ gained = (IF sel = lastCorrect[r] THEN 1 ELSE 0) ]_vars

\* C19: two submissions of distinct players p and q on the same open question
\* commute: in either delivery order the room ends in the same state (scores,
\* hasAnswered, currentAnswer, cursor, flags), each player gets the same
\* answerResult, the second one is still accepted, and each player's entry
\* records that player's own selection.
CanSubmit(room, s) ==
  /\ s \in PlayerIds(room.players)
  /\ ~GetPlayer(room.players, s).hasAnswered
  /\ ~room.isQuizEnded

C19_SubmissionsCommute ==
  \A r \in RoomIds :
    Exists(r) =>
      \A p \in Conns, q \in Conns, a \in SelectedInputs, b \in SelectedInputs :
        (p # q /\ CanSubmit(rooms[r], p) /\ CanSubmit(rooms[r], q))
        => LET pFirst == Answered(rooms[r], p, a)
               qFirst == Answered(rooms[r], q, b)
               both == Answered(pFirst, q, b)
           IN /\ CanSubmit(pFirst, q) /\ CanSubmit(qFirst, p)
              /\ both = Answered(qFirst, p, a)
              /\ AnswerResult(pFirst, q, b) = AnswerResult(rooms[r], q, b)
              /\ AnswerResult(qFirst, p, a) = AnswerResult(rooms[r], p, a)
              /\ GetPlayer(both.players, p).currentAnswer = a
              /\ GetPlayer(both.players, q).currentAnswer = b
              /\ GetPlayer(both.players, p).score
                   = AnsweredPlayer(rooms[r], p, a).score
              /\ GetPlayer(both.players, q).score
                   = AnsweredPlayer(rooms[r], q, b).score

C19_Witness ==
  /\ event.type = "submitAnswer"
  /\ HasEvent(emitted, "answerResult")
  /\ \E r \in RoomIds :
       /\ Exists(r)
       /\ \A s \in Conns : IsPlayer(r, s) /\ GetPlayer(rooms[r].players, s).hasAnswered
       /\ \E s \in Conns : GetPlayer(rooms[r].players, s).score > 0

\* C20: with the questions pre-loaded and no room created twice, a host that
\* keeps sending nextQuestion ends the quiz: every existing room is eventually
\* ended; the cursor never moves back and each nextQuestion of the host on a
\* running room moves it by one and ends the room as soon as the cursor reaches
\* the number n of questions (so the n-th one counted from cursor 0 at the
\* latest); an ended room stays ended, and a further nextQuestion leaves the
\* room as it is and yields only 'Quiz has already ended' to the host.
C20_Eventually == \A r \in RoomIds : Exists(r) ~> (Exists(r) /\ rooms[r].isQuizEnded)

C20_Steps ==
  \A r \in RoomIds :
    Exists(r) =>
      /\ Exists(r)'
      /\ rooms'[r].currentQuestionIndex >= rooms[r].currentQuestionIndex
      /\ rooms[r].isQuizEnded => rooms'[r].isQuizEnded
      /\ (event' = Event("nextQuestion", rooms[r].hostId, r) /\ ~rooms[r].isQuizEnded)
           => /\ rooms'[r].currentQuestionIndex = rooms[r].currentQuestionIndex + 1
              /\ rooms'[r].isQuizEnded
                   = (rooms[r].currentQuestionIndex + 1 >= Len(rooms[r].questions))
      /\ (\E s \in Conns : event' = Event("nextQuestion", s, r) /\ rooms[r].isQuizEnded)
           => /\ rooms' = rooms
              /\ emitted' = IF event'.socket = rooms[r].hostId
                              THEN << ErrorTo(rooms[r].hostId, "Quiz has already ended") >>
                              ELSE <<>>

====
